---- MODULE Spec2Model ----
(***************************************************************************)
(* Model of app/static/script.js: the chat widget's session lifecycle,     *)
(* the send / response pipeline, the rendering of messages and tables,     *)
(* and the export of a table card as a PDF document.                       *)
(*                                                                         *)
(* Texts are sequences of character tokens so that trim() and the          *)
(* image-stripping replace() are computed, not assumed.  JSON values of    *)
(* the response body are tagged records of one uniform shape.              *)
(***************************************************************************)
EXTENDS Integers, Sequences, FiniteSets, TLC

(***************************************************************************)
(* Bounds of the model.                                                    *)
(***************************************************************************)
\* number of non-empty sends issued in a behaviour
MaxSends == 2

(***************************************************************************)
(* Program constants.                                                      *)
(***************************************************************************)
TypingId == "typing-indicator-wrapper"

NoId == "null"

\* A text is a sequence of tokens; a token is one character, or a run of
\* characters written as one string where no white space and no part of a tag
\* is among them.
Greeting == <<"Hello! I'm the SLCI assistant (Tara). How can I help you today?">>

TypingText == <<"Typing...">>

Apology == <<"Sorry, I'm having trouble connecting. Please try again.">>

(***************************************************************************)
(* String.prototype.trim and the replace(/<img[^>]*>/g, '') of             *)
(* addMessageToChatbox, on sequences of characters.                        *)
(***************************************************************************)
IsSpace(c) == c \in {" ", "\t", "\n"}

RECURSIVE TrimLeft(_)
TrimLeft(s) ==
    IF s = <<>> THEN <<>>
    ELSE IF IsSpace(Head(s)) THEN TrimLeft(Tail(s)) ELSE s

RECURSIVE TrimRight(_)
TrimRight(s) ==
    IF s = <<>> THEN <<>>
    ELSE IF IsSpace(s[Len(s)]) THEN TrimRight(SubSeq(s, 1, Len(s) - 1)) ELSE s

\* a value used as it is, without trim()
TrimNot(s) == s

Trim(s) == TrimRight(TrimLeft(s))

\* does the literal "<img" start at position i of s
ImgAt(s, i) ==
    /\ i + 3 <= Len(s)
    /\ s[i] = "<" /\ s[i + 1] = "i" /\ s[i + 2] = "m" /\ s[i + 3] = "g"

\* positions of a ">" at or after position i
ClosersFrom(s, i) == {j \in i..Len(s) : s[j] = ">"}

Min(S) == CHOOSE m \in S : \A n \in S : m <= n

RECURSIVE StripFrom(_, _)
StripFrom(s, i) ==
    IF i > Len(s) THEN <<>>
    ELSE IF ImgAt(s, i) /\ ClosersFrom(s, i + 4) # {}
         THEN StripFrom(s, Min(ClosersFrom(s, i + 4)) + 1)
         ELSE <<s[i]>> \o StripFrom(s, i + 1)

StripImg(s) == StripFrom(s, 1)

(***************************************************************************)
(* JSON values carried by a response body.  Every value has the same       *)
(* record shape; t is the JavaScript type of the value.                    *)
(***************************************************************************)
Undefined == [t |-> "undefined", chars |-> <<>>, rows |-> <<>>]

JsString(c) == [t |-> "string", chars |-> c, rows |-> <<>>]

\* a non-zero number
JsNumber == [t |-> "number", chars |-> <<>>, rows |-> <<>>]

JsArray(r) == [t |-> "array", chars |-> <<>>, rows |-> r]

\* an element of the table array: an array of cells, or something else
Row(c) == [isArray |-> TRUE, cells |-> c]

NotARow == [isArray |-> FALSE, cells |-> <<>>]

\* JavaScript truthiness, as used by `data.table &&` and `data.reply &&`
Truthy(v) ==
    CASE v.t = "undefined" -> FALSE
      [] v.t = "string" -> v.chars # <<>>
      [] v.t = "number" -> TRUE
      [] v.t = "array" -> TRUE

\* `v.length > 0`; the length of a number is undefined and undefined > 0 is false
LengthPositive(v) ==
    CASE v.t = "string" -> Len(v.chars) > 0
      [] v.t = "array" -> Len(v.rows) > 0
      [] OTHER -> FALSE

(***************************************************************************)
(* Meta objects.  has is the set of fields the object defines.             *)
(***************************************************************************)
MetaFields == {"state", "act_name", "da", "effective_from", "pdf_url"}

NullMeta ==
    [isNull |-> TRUE, has |-> {}, state |-> "", act_name |-> "", da |-> "",
     effective_from |-> "", pdf_url |-> ""]

MetaDelhi ==
    [isNull |-> FALSE, has |-> MetaFields, state |-> "Delhi",
     act_name |-> "MW Act", da |-> "10", effective_from |-> "2024-04-01",
     pdf_url |-> "http://x/doc.pdf"]

MetaGoa ==
    [isNull |-> FALSE, has |-> MetaFields \ {"pdf_url"}, state |-> "Goa",
     act_name |-> "MW Act", da |-> "12", effective_from |-> "2024-10-01",
     pdf_url |-> ""]

\* `${meta.f}` in a template literal: an undefined field prints as "undefined"
Interpolate(meta, f) ==
    IF f \in meta.has
    THEN CASE f = "state" -> meta.state
           [] f = "act_name" -> meta.act_name
           [] f = "da" -> meta.da
           [] f = "effective_from" -> meta.effective_from
           [] f = "pdf_url" -> meta.pdf_url
    ELSE "undefined"

(***************************************************************************)
(* Response bodies: text that does not parse, the JSON value null, or a    *)
(* JSON object with optional table, reply and meta members.                *)
(***************************************************************************)
Body(p, tb, rp, m) == [parse |-> p, table |-> tb, reply |-> rp, meta |-> m]

Unparsable == Body("fail", Undefined, Undefined, NullMeta)

JsonNull == Body("null", Undefined, Undefined, NullMeta)

RectTable == JsArray(<<Row(<<"State", "Rate">>), Row(<<"Delhi", "500">>)>>)

RaggedTable == JsArray(<<Row(<<"State", "Rate">>), Row(<<"Goa">>), Row(<<"Delhi", "500", "x">>)>>)

HeaderOnlyTable == JsArray(<<Row(<<"State">>)>>)

BadRowTable == JsArray(<<Row(<<"State", "Rate">>), NotARow>>)

GoodTables == {RectTable, RaggedTable, HeaderOnlyTable}

ReplyOk == JsString(<<" ", "ok", " ">>)

ReplyBlank == JsString(<<" ", "\n">>)

\* the bodies a response is drawn from
Bodies ==
    {Unparsable, JsonNull,
     Body("object", Undefined, Undefined, NullMeta),
     Body("object", Undefined, ReplyOk, NullMeta),
     Body("object", Undefined, ReplyBlank, NullMeta),
     Body("object", Undefined, JsNumber, NullMeta),
     Body("object", JsArray(<<>>), ReplyOk, NullMeta),
     Body("object", JsNumber, JsString(<<>>), NullMeta),
     Body("object", JsString(<<"abc">>), Undefined, NullMeta),
     Body("object", BadRowTable, ReplyOk, MetaDelhi),
     Body("object", RectTable, ReplyOk, MetaDelhi),
     Body("object", RaggedTable, Undefined, MetaGoa),
     Body("object", HeaderOnlyTable, JsNumber, NullMeta)}

(***************************************************************************)
(* The children of chatBox.  A child is a message bubble or a wage-table   *)
(* card; both are records of one shape.  The only elements with the id     *)
(* typing-indicator-wrapper are the bubbles line 91 gives it to: the       *)
(* markup of a message (line 99) is taken to define no element with that   *)
(* id.  categoryBtnContainer is taken to exist.                            *)
(***************************************************************************)
NoMetaBox ==
    [present |-> FALSE, state |-> "", act_name |-> "", da |-> "",
     effective_from |-> "", hasLink |-> FALSE, href |-> ""]

\* dataset holds the two data-* attributes of the card's button as JSON text
NoDataset == [tabledata |-> <<>>, meta |-> <<>>]

\* the arguments of a call addTableToChat(tableData, meta) or
\* downloadTableAsPDF(tableData, meta): the rows of the table, and the meta
Args(rows, meta) == [tableData |-> rows, meta |-> meta]

NoArgs == Args(<<>>, NullMeta)

Bubble(sender, id, html) ==
    [kind |-> "message", sender |-> sender, id |-> id, html |-> html,
     metaBox |-> NoMetaBox, th |-> <<>>, tr |-> <<>>, dataset |-> NoDataset,
     renderedWith |-> NoArgs]

\* renderedWith: the arguments addTableToChat was called with (kept for the
\* properties; the program keeps them in dataset only)
Card(metaBox, th, tr, dataset, renderedWith) ==
    [kind |-> "table", sender |-> "bot", id |-> NoId, html |-> <<>>,
     metaBox |-> metaBox, th |-> th, tr |-> tr, dataset |-> dataset,
     renderedWith |-> renderedWith]

IsTyping(e) == e.id = TypingId

TypingPositions(box) == {i \in 1..Len(box) : IsTyping(box[i])}

TypingCount(box) == Cardinality(TypingPositions(box))

RemoveAt(box, i) == SubSeq(box, 1, i - 1) \o SubSeq(box, i + 1, Len(box))

\* removeTypingIndicator that finds no element to remove
removeTypingIndicatorNoop(box) == box

\* getElementById returns the first element with the id, in document order
removeTypingIndicator(box) ==
    IF TypingPositions(box) = {} THEN box
    ELSE RemoveAt(box, Min(TypingPositions(box)))

\* addMessageToChatbox without line 86
addMessageToChatboxNoClear(box, text, sender, id) ==
    Append(box, Bubble(sender, id, Trim(StripImg(text))))

addMessageToChatbox(box, text, sender, id) ==
    LET cleared == IF id # TypingId THEN removeTypingIndicator(box) ELSE box
    IN  Append(cleared, Bubble(sender, id, Trim(StripImg(text))))

\* the meta summary block of a card
MetaBoxOf(meta) ==
    IF meta.isNull THEN NoMetaBox
    ELSE [present |-> TRUE,
          state |-> Interpolate(meta, "state"),
          act_name |-> Interpolate(meta, "act_name"),
          da |-> Interpolate(meta, "da"),
          effective_from |-> Interpolate(meta, "effective_from"),
          hasLink |-> ("pdf_url" \in meta.has /\ meta.pdf_url # ""),
          href |-> IF "pdf_url" \in meta.has THEN meta.pdf_url ELSE ""]

\* a map that stops one entry early
CellsOfButLast(row) == [k \in 1..(Len(row.cells) - 1) |-> row.cells[k]]

\* row.map(c => `<td>${c}</td>`): one cell per entry of the row, in order
CellsOf(row) == [k \in 1..Len(row.cells) |-> row.cells[k]]

\* tableData[0].map and tableData[i].map throw a TypeError on a non-array
TableThrows(tableData) ==
    \/ tableData.t # "array"
    \/ Len(tableData.rows) = 0
    \/ \E i \in 1..Len(tableData.rows) : ~tableData.rows[i].isArray

\* the rows of a table whose rows are all arrays, as sequences of cells
RowsOf(tableData) == [i \in 1..Len(tableData.rows) |-> tableData.rows[i].cells]

(***************************************************************************)
(* JSON.stringify and JSON.parse of the two values a card keeps.  JSON     *)
(* text is a sequence of tokens: a punctuation mark or a string literal.   *)
(***************************************************************************)
Punct(c) == <<"punct", c>>

Literal(c) == <<"string", c>>

\* the members of a sequence of JSON texts, separated by commas
RECURSIVE Joined(_)
Joined(texts) ==
    IF texts = <<>> THEN <<>>
    ELSE IF Len(texts) = 1 THEN texts[1]
    ELSE texts[1] \o <<Punct(",")>> \o Joined(Tail(texts))

StringifyRow(cells) ==
    <<Punct("[")>> \o Joined([k \in 1..Len(cells) |-> <<Literal(cells[k])>>]) \o <<Punct("]")>>

\* JSON.stringify(tableData), tableData an array of arrays of strings
StringifyTable(rows) ==
    <<Punct("[")>> \o Joined([i \in 1..Len(rows) |-> StringifyRow(rows[i])]) \o <<Punct("]")>>

\* the order in which the members of a meta object are written
MetaFieldOrder == <<"state", "act_name", "da", "effective_from", "pdf_url">>

Defined(meta) == SelectSeq(MetaFieldOrder, LAMBDA f : f \in meta.has)

\* JSON.stringify(meta): null for null, else the members the object defines
StringifyMeta(meta) ==
    IF meta.isNull THEN <<Punct("null")>>
    ELSE <<Punct("{")>>
         \o Joined([k \in 1..Len(Defined(meta)) |->
                      <<Literal(Defined(meta)[k]), Punct(":"), Literal(meta[Defined(meta)[k]])>>])
         \o <<Punct("}")>>

\* the cells of one row, read from position i on, up to its "]"
RECURSIVE ParseCells(_, _, _)
ParseCells(json, i, acc) ==
    IF json[i] = Punct("]") THEN [val |-> acc, next |-> i + 1]
    ELSE IF json[i] = Punct(",") THEN ParseCells(json, i + 1, acc)
    ELSE ParseCells(json, i + 1, Append(acc, json[i][2]))

RECURSIVE ParseRows(_, _, _)
ParseRows(json, i, acc) ==
    IF json[i] = Punct("]") THEN acc
    ELSE IF json[i] = Punct(",") THEN ParseRows(json, i + 1, acc)
    ELSE LET row == ParseCells(json, i + 1, <<>>)
         IN  ParseRows(json, row.next, Append(acc, row.val))

\* JSON.parse of the text of an array of arrays of strings
ParseTable(json) == ParseRows(json, 2, <<>>)

\* an object with no members
EmptyMeta == [NullMeta EXCEPT !.isNull = FALSE]

RECURSIVE ParseMembers(_, _, _)
ParseMembers(json, i, acc) ==
    IF json[i] = Punct("}") THEN acc
    ELSE IF json[i] = Punct(",") THEN ParseMembers(json, i + 1, acc)
    ELSE ParseMembers(json, i + 3,
                      [acc EXCEPT ![json[i][2]] = json[i + 2][2],
                                  !.has = @ \cup {json[i][2]}])

\* JSON.parse of the text of null or of an object with string members
ParseMeta(json) ==
    IF json = <<Punct("null")>> THEN NullMeta ELSE ParseMembers(json, 2, EmptyMeta)

\* the value of pdfButton.dataset after lines 173-174
DatasetOf(tableData, meta) ==
    [tabledata |-> StringifyTable(RowsOf(tableData)), meta |-> StringifyMeta(meta)]

\* result: the new children of chatBox, and whether a TypeError was thrown
\* (it is thrown before the card is attached to chatBox)
addTableToChat(box, tableData, meta) ==
    IF TableThrows(tableData)
    THEN [threw |-> TRUE, box |-> box]
    ELSE [threw |-> FALSE,
          box |-> Append(box,
                    Card(MetaBoxOf(meta),
                         CellsOf(tableData.rows[1]),
                         [i \in 1..(Len(tableData.rows) - 1) |-> CellsOf(tableData.rows[i + 1])],
                         DatasetOf(tableData, meta),
                         Args(RowsOf(tableData), meta)))]

(***************************************************************************)
(* sendChatMessage after `await response.json()`: lines 64-75.             *)
(* The result of a step of the try block is the new children of chatBox,   *)
(* whether the step threw, and what the try block has rendered.            *)
(***************************************************************************)
Thrown(box) == [box |-> box, threw |-> TRUE, rendered |-> "none"]

Returned(box, rendered) == [box |-> box, threw |-> FALSE, rendered |-> rendered]

\* `data.table && data.table.length > 0`, line 67
HasTable(data) == Truthy(data.table) /\ LengthPositive(data.table)

\* `data.reply.trim()` throws a TypeError when the truthy reply is no string
ReplyThrows(data) == Truthy(data.reply) /\ data.reply.t # "string"

\* line 73 without the trim() test
HasReplyNoTrim(data) == Truthy(data.reply) /\ data.reply.t = "string"

\* `data.reply && data.reply.trim() !== ""`, line 73
HasReply(data) ==
    Truthy(data.reply) /\ data.reply.t = "string" /\ Trim(data.reply.chars) # <<>>

\* lines 72-75: the text reply
ReplyStep(box, data) ==
    IF ReplyThrows(data) THEN Thrown(box)
    ELSE IF HasReply(data)
         THEN Returned(addMessageToChatbox(box, data.reply.chars, "bot", NoId), "reply")
         ELSE Returned(box, "none")

\* lines 68-69 without the return: the reply is handled after the table
TableStepNoReturn(box, data) ==
    LET r == addTableToChat(box, data.table, data.meta)
    IN  IF r.threw THEN Thrown(r.box) ELSE ReplyStep(r.box, data)

\* lines 68-69: the table card, then return
TableStep(box, data) ==
    LET r == addTableToChat(box, data.table, data.meta)
    IN  IF r.threw THEN Thrown(r.box) ELSE Returned(r.box, "table")

\* lines 67-75 without line 64
HandleDataNoRemove(box, data) ==
    IF data.parse = "null" THEN Thrown(box)
    ELSE IF HasTable(data) THEN TableStep(box, data)
    ELSE ReplyStep(box, data)

\* lines 64-75; reading a member of null throws a TypeError at line 67
HandleData(box, data) ==
    LET cleared == removeTypingIndicator(box)
    IN  IF data.parse = "null" THEN Thrown(cleared)
        ELSE IF HasTable(data) THEN TableStep(cleared, data)
        ELSE ReplyStep(cleared, data)

\* the catch block, lines 77-81
CatchBlock(box) == addMessageToChatbox(removeTypingIndicator(box), Apology, "bot", NoId)

\* the try/catch as a whole: what the call leaves behind when the try block
\* ended as `attempt` says.  escaped: the promise of sendChatMessage rejected.
Settle(attempt) ==
    IF attempt.threw
    THEN [box |-> CatchBlock(attempt.box), outcome |-> "apology", escaped |-> FALSE]
    ELSE [box |-> attempt.box,
          outcome |-> IF attempt.rendered = "none" THEN "empty" ELSE attempt.rendered,
          escaped |-> FALSE]

\* a try block that threw before line 64 (fetch rejected, status not ok,
\* body not JSON)
ThrewEarly(box) == Thrown(box)

(***************************************************************************)
(* The click handler of a card's button, lines 176-181.                    *)
(***************************************************************************)
IsCard(e) == e.kind = "table"

CardPositions(box) == {i \in 1..Len(box) : IsCard(box[i])}

\* a handler that reads the button of the newest card
ExportArgsOfLast(box, i) ==
    LET last == CHOOSE j \in CardPositions(box) : \A k \in CardPositions(box) : k <= j
    IN  Args(ParseTable(box[last].dataset.tabledata), ParseMeta(box[last].dataset.meta))

\* what the button of the card at position i passes to downloadTableAsPDF:
\* JSON.parse of its own two data-* attributes
ExportArgs(box, i) ==
    Args(ParseTable(box[i].dataset.tabledata), ParseMeta(box[i].dataset.meta))

(***************************************************************************)
(* window.downloadTableAsPDF, lines 192-250.  The body of the try block is *)
(* a sequence of steps on the jsPDF document; a step of the library may    *)
(* throw.  Positions are in mm from the top of the page.                   *)
(***************************************************************************)
\* `let yPos = 12`
TitleY == 12

\* `yPos += 10` after the company title
TitleAdvance == 10

\* `yPos += 8` after the report title
ReportTitleAdvance == 8

\* `yPos += 6` after each of the two meta lines
MetaLineAdvance == 6

\* `yPos += 10` after the notification link
UrlAdvance == 10

\* `doc.lastAutoTable.finalY + 12`
DisclaimerMargin == 12

\* `if (meta)`
MetaTruthy(meta) == ~meta.isNull

\* `if (meta.pdf_url)`
UrlTruthy(meta) == "pdf_url" \in meta.has /\ meta.pdf_url # ""

\* `${meta?.state}`: the state as a template literal alone prints it
StateInterpolated(meta) ==
    IF meta.isNull THEN "undefined" ELSE Interpolate(meta, "state")

\* `meta?.state || ""`
StateOrEmpty(meta) ==
    IF ~meta.isNull /\ "state" \in meta.has /\ meta.state # "" THEN meta.state ELSE ""

\* the argument of doc.save, line 244
FileName(meta) == "Wage_Details_" \o StateOrEmpty(meta) \o ".pdf"

\* the try block with the save moved before the disclaimer
PdfStepsSaveEarly(meta) ==
    <<"jsPDF", "title", "reportTitle">>
    \o (IF MetaTruthy(meta) THEN <<"state", "effective_from">> ELSE <<>>)
    \o (IF MetaTruthy(meta) /\ UrlTruthy(meta) THEN <<"pdf_url">> ELSE <<>>)
    \o <<"autoTable", "finalY", "save", "disclaimer">>

\* the statements of the try block that call the library, in program order
PdfSteps(meta) ==
    <<"jsPDF", "title", "reportTitle">>
    \o (IF MetaTruthy(meta) THEN <<"state", "effective_from">> ELSE <<>>)
    \o (IF MetaTruthy(meta) /\ UrlTruthy(meta) THEN <<"pdf_url">> ELSE <<>>)
    \o <<"autoTable", "finalY", "disclaimer", "save">>

NoPdfTable == [drawn |-> FALSE, head |-> <<>>, body |-> <<>>, startY |-> 0, finalY |-> 0]

\* the document and the locals of the call before line 194
PdfStart ==
    [made |-> FALSE, yPos |-> TitleY, texts |-> <<>>, table |-> NoPdfTable,
     finalY |-> 0, saved |-> FALSE, fileName |-> ""]

\* doc.text(text, 14, y)
TextLine(line, text, y) == [line |-> line, text |-> text, y |-> y]

\* a text line written without moving the cursor
WriteLineNoAdvance(d, line, text, advance) ==
    [d EXCEPT !.texts = Append(@, TextLine(line, text, d.yPos))]

\* doc.text(..., 14, yPos); yPos += advance
WriteLine(d, line, text, advance) ==
    [d EXCEPT !.texts = Append(@, TextLine(line, text, d.yPos)), !.yPos = @ + advance]

\* one statement of the try block that did not throw.  endOffset: where
\* autoTable ends the table, relative to startY, as the library reports it
PdfStep(step, d, tableData, meta, endOffset) ==
    CASE step = "jsPDF" -> [d EXCEPT !.made = TRUE]
      [] step = "title" -> WriteLine(d, step, "Shakti Legal Compliance India (SLCI)", TitleAdvance)
      [] step = "reportTitle" -> WriteLine(d, step, "Minimum Wage Details Report", ReportTitleAdvance)
      [] step = "state" -> WriteLine(d, step, Interpolate(meta, "state"), MetaLineAdvance)
      [] step = "effective_from" ->
             WriteLine(d, step, Interpolate(meta, "effective_from"), MetaLineAdvance)
      [] step = "pdf_url" -> WriteLine(d, step, Interpolate(meta, "pdf_url"), UrlAdvance)
      [] step = "autoTable" ->
             [d EXCEPT !.table = [drawn |-> TRUE, head |-> Head(tableData),
                                  body |-> Tail(tableData), startY |-> d.yPos,
                                  finalY |-> d.yPos + endOffset]]
      [] step = "finalY" -> [d EXCEPT !.finalY = d.table.finalY + DisclaimerMargin]
      [] step = "disclaimer" ->
             [d EXCEPT !.texts = Append(@, TextLine(step, "Disclaimer", d.finalY))]
      [] step = "save" -> [d EXCEPT !.saved = TRUE, !.fileName = FileName(meta)]

\* how the library behaves in one call: the statement at which it throws
\* ("none": nowhere) and where it ends the table
Lib(fault, endOffset) == [fault |-> fault, endOffset |-> endOffset]

\* the try block from statement k on
RECURSIVE RunSteps(_, _, _, _, _, _)
RunSteps(steps, k, d, tableData, meta, lib) ==
    IF k > Len(steps) THEN [doc |-> d, threw |-> FALSE]
    ELSE IF steps[k] = lib.fault THEN [doc |-> d, threw |-> TRUE]
    ELSE RunSteps(steps, k + 1, PdfStep(steps[k], d, tableData, meta, lib.endOffset),
                  tableData, meta, lib)

\* one call of downloadTableAsPDF: its arguments, the document it left, and
\* what the catch block did (console.error, alert); escaped: the call threw;
\* card: the position in the log of the card whose button made the call
downloadTableAsPDF(tableData, meta, lib) ==
    LET run == RunSteps(PdfSteps(meta), 1, PdfStart, tableData, meta, lib)
    IN  [called |-> TRUE, card |-> 0, args |-> Args(tableData, meta), lib |-> lib,
         doc |-> run.doc,
         errors |-> IF run.threw THEN 1 ELSE 0,
         alerts |-> IF run.threw THEN 1 ELSE 0,
         escaped |-> FALSE]

NoExport ==
    [called |-> FALSE, card |-> 0, args |-> NoArgs, lib |-> Lib("none", 0), doc |-> PdfStart,
     errors |-> 0, alerts |-> 0, escaped |-> FALSE]

(***************************************************************************)
(* Inputs.                                                                 *)
(***************************************************************************)
\* the statements at which the library can throw in a call with this meta:
\* those before the save
PdfFaults(meta) ==
    {"none"} \cup ({PdfSteps(meta)[k] : k \in 1..Len(PdfSteps(meta))} \ {"save"})

\* where autoTable can end a table, relative to startY: further down the
\* page, or on a following page and higher up than it started
TableEndOffsets == {16, -20}

\* a meta object without a state, and one whose state is the empty string
MetaNoState ==
    [NullMeta EXCEPT !.isNull = FALSE, !.has = {"effective_from"},
                     !.effective_from = "2025-01-01"]

MetaEmptyState ==
    [NullMeta EXCEPT !.isNull = FALSE, !.has = {"state", "effective_from"},
                     !.effective_from = "2025-01-01"]

\* the arguments a caller of window.downloadTableAsPDF passes
PdfMetas == {NullMeta, MetaDelhi, MetaGoa, MetaNoState, MetaEmptyState}

PdfTables == {RowsOf(t) : t \in GoodTables}

\* texts with markup in them, as the user can type them and the service can
\* send them: an image tag in lower case, in upper case, in mixed case, an
\* image tag around another one, and markup that is no image
MarkupTexts ==
    {<<"see", "<", "i", "m", "g", " ", "src=x", ">", " ">>,
     <<"<", "I", "M", "G", " ", "src=x", ">">>,
     <<"<", "I", "m", "g", "/", ">", "hi">>,
     <<"<", "i", "m", "<", "i", "m", "g", ">", "g", " ", "src=x", ">">>,
     <<"<", "b", ">", "hi", "<", "/", "b", ">">>}

\* the bodies that carry such a text as the reply
MarkupBodies == {Body("object", Undefined, JsString(t), NullMeta) : t \in MarkupTexts}

\* how the library behaves when a button of the log is clicked: it draws the
\* document, or autoTable throws
ClickLibs == {Lib("none", 16), Lib("autoTable", 16)}

\* what the input field can hold when a send is triggered
UserTexts == {<<>>, <<" ", "\t">>, <<" ", "hi", " ">>}

\* what Date.now() can return: two calls read the same millisecond or not
ClockReadings == {1700000000, 1700000001}

\* how a fetch settles: it rejects, or resolves with a status
FetchResults == {"reject", "notok", "ok"}

\* a status check that lets every response through
ResponseOkAlways(status) == TRUE

\* response.ok
ResponseOk(status) == status = "ok"

NoSession == "undefined"

NoBody == Body("none", Undefined, Undefined, NullMeta)

NoRequest == [message |-> <<>>, session_id |-> NoSession, pc |-> "none", current |-> FALSE]

(***************************************************************************)
(* State.                                                                  *)
(***************************************************************************)
VARIABLES
    chatBox,          \* the children of #chat-box, in document order
    sessionId,        \* let sessionId
    categoryDisplay,  \* categoryBtnContainer.style.display
    userInput,        \* userInput.value
    requests,         \* the calls of sendChatMessage suspended at an await
    sent,             \* how many calls of sendChatMessage reached fetch
    minted,           \* the session ids minted so far, with the clock reading
    lastOp            \* the handler that ran last

vars == <<chatBox, sessionId, categoryDisplay, userInput, requests, sent, minted, lastOp>>

\* a handler run.  value: what the input field held; req: the call it started
\* or resumed; now: what Date.now() returned, if the handler called it (0 if
\* not); result: how the fetch settled; body: what response.json() read;
\* outcome, escaped: how the call ended, if it did
Op(name, value, req, now, result, body, outcome, escaped) ==
    [name |-> name, value |-> value, req |-> req, now |-> now, result |-> result,
     body |-> body, outcome |-> outcome, escaped |-> escaped, export |-> NoExport]

\* line 46 without the test
NeedsSessionAlways(id) == TRUE

\* `!sessionId`, line 46
NeedsSession(id) == id = NoSession

\* an id that leaves the clock out
MintIdFixed(now) == "session_"

\* "session_" + Date.now()
MintId(now) == "session_" \o ToString(now)

\* startNewSession without line 31
StartedStateNoClear(now) ==
    [chatBox |-> addMessageToChatbox(chatBox, Greeting, "bot", NoId),
     sessionId |-> MintId(now),
     categoryDisplay |-> "flex",
     minted |-> minted \cup {[id |-> MintId(now), at |-> now]}]

\* startNewSession, lines 30-39, as the new values of what it assigns
StartedState(now) ==
    [chatBox |-> addMessageToChatbox(<<>>, Greeting, "bot", NoId),
     sessionId |-> MintId(now),
     categoryDisplay |-> "flex",
     minted |-> minted \cup {[id |-> MintId(now), at |-> now]}]

\* the page after DOMContentLoaded: line 257 has called startNewSession
Init ==
    LET now == Min(ClockReadings)
    IN
        /\ chatBox = addMessageToChatbox(<<>>, Greeting, "bot", NoId)
        /\ sessionId = MintId(now)
        /\ categoryDisplay = "flex"
        /\ minted = {[id |-> MintId(now), at |-> now]}
        /\ userInput = <<>>
        /\ requests = <<>>
        /\ sent = 0
        /\ lastOp = Op("DOMContentLoaded", <<>>, NoRequest, now, "none", NoBody, "none", FALSE)

\* the suspended calls, none of them issued in the current session any more
Outdated(reqs) == [i \in 1..Len(reqs) |-> [reqs[i] EXCEPT !.current = FALSE]]

\* click on #refresh-btn, with Date.now() returning `now`
startNewSession ==
    \E now \in ClockReadings :
        /\ LET st == StartedState(now)
           IN  /\ chatBox' = st.chatBox
               /\ sessionId' = st.sessionId
               /\ categoryDisplay' = st.categoryDisplay
               /\ minted' = st.minted
        /\ requests' = Outdated(requests)
        /\ lastOp' = Op("startNewSession", <<>>, NoRequest, now, "none", NoBody, "none", FALSE)
        /\ UNCHANGED <<userInput, sent>>

\* lines 49 and 52 in the other order
SentLogTypingFirst(box, userText) ==
    addMessageToChatbox(addMessageToChatbox(box, TypingText, "bot", TypingId),
                        userText, "user", NoId)

\* lines 49 and 52: the user message, then the transient message
SentLog(box, userText) ==
    addMessageToChatbox(addMessageToChatbox(box, userText, "user", NoId),
                        TypingText, "bot", TypingId)

\* sendChatMessage up to the first await, lines 42-59, with `value` in the
\* input field and Date.now() returning `now`
SendWith(value, now) ==
    LET userText == Trim(value)
    IN  IF userText = <<>>
        THEN /\ userInput' = value
             /\ lastOp' = Op("sendChatMessage", value, NoRequest, 0, "none", NoBody, "none", FALSE)
             /\ UNCHANGED <<chatBox, sessionId, categoryDisplay, requests, sent, minted>>
        ELSE /\ sent < MaxSends
             /\ LET fresh == NeedsSession(sessionId)
                    st == StartedState(now)
                    box0 == IF fresh THEN st.chatBox ELSE chatBox
                    sid == IF fresh THEN st.sessionId ELSE sessionId
                    box2 == SentLog(box0, userText)
                    req == [message |-> userText, session_id |-> sid,
                            pc |-> "fetch", current |-> TRUE]
                IN  /\ chatBox' = box2
                    /\ sessionId' = sid
                    /\ minted' = IF fresh THEN st.minted ELSE minted
                    /\ requests' = Append(IF fresh THEN Outdated(requests) ELSE requests, req)
                    /\ lastOp' = Op("sendChatMessage", value, req, IF fresh THEN now ELSE 0,
                                     "none", NoBody, "pending", FALSE)
             /\ sent' = sent + 1
             /\ categoryDisplay' = "none"
             /\ userInput' = <<>>

\* click on #send-btn, Enter in the input field, or click on a .chat-btn
sendChatMessage ==
    \E value \in UserTexts, now \in ClockReadings : SendWith(value, now)

\* a call that is issued again when it is over
FinishRetries(i, s, opname, result, body) ==
    /\ requests' = [requests EXCEPT ![i].pc = "fetch"]
    /\ chatBox' = s.box
    /\ lastOp' = Op(opname, <<>>, requests[i], 0, result, body, s.outcome, s.escaped)

\* call i is over: s is what it leaves in chatBox and how it ended
Finish(i, s, opname, result, body) ==
    /\ requests' = RemoveAt(requests, i)
    /\ chatBox' = s.box
    /\ lastOp' = Op(opname, <<>>, requests[i], 0, result, body, s.outcome, s.escaped)

\* `await fetch(...)` of call i settles, lines 55-61
FetchSettledAt(i) ==
    /\ i \in 1..Len(requests)
    /\ requests[i].pc = "fetch"
    /\ UNCHANGED <<sessionId, categoryDisplay, userInput, sent, minted>>
    /\ \E result \in FetchResults :
           IF result = "reject" \/ ~ResponseOk(result)
           THEN \E s \in {Settle(ThrewEarly(chatBox))} :
                    Finish(i, s, "fetchSettled", result, NoBody)
           ELSE /\ requests' = [requests EXCEPT ![i].pc = "json"]
                /\ chatBox' = chatBox
                /\ lastOp' = Op("fetchSettled", <<>>, requests[i], 0, result, NoBody, "pending", FALSE)

FetchSettled == \E i \in 1..Len(requests) : FetchSettledAt(i)

\* `await response.json()` of call i settles after reading the body,
\* lines 62-75
JsonSettledAt(i, bodies) ==
    /\ i \in 1..Len(requests)
    /\ requests[i].pc = "json"
    /\ UNCHANGED <<sessionId, categoryDisplay, userInput, sent, minted>>
    /\ \E data \in bodies :
           \E attempt \in {IF data.parse = "fail"
                            THEN ThrewEarly(chatBox)
                            ELSE HandleData(chatBox, data)} :
               \E s \in {Settle(attempt)} : Finish(i, s, "jsonSettled", "ok", data)

JsonSettledWith(bodies) == \E i \in 1..Len(requests) : JsonSettledAt(i, bodies)

JsonSettled == JsonSettledWith(Bodies)

Next ==
    \/ startNewSession
    \/ sendChatMessage
    \/ FetchSettled
    \/ JsonSettled

Spec == Init /\ [][Next]_vars

(***************************************************************************)
(* The same page when every remote call returns or fails: the fetch of a   *)
(* suspended call settles, and the body of a response that arrived is      *)
(* read; the event loop then resumes the call.  i is the position of the   *)
(* call among the suspended ones, the oldest first.                        *)
(***************************************************************************)
EveryCallSettles ==
    \A i \in 1..MaxSends :
        WF_vars(FetchSettledAt(i)) /\ WF_vars(JsonSettledAt(i, Bodies))

FairSpec == Spec /\ EveryCallSettles

(***************************************************************************)
(* The page with the export: the handlers above, and a click on the        *)
(* button of a card in the log.  The click changes nothing the handlers    *)
(* above read.                                                             *)
(***************************************************************************)
Exported(name, card, export) ==
    [Op(name, <<>>, NoRequest, 0, "none", NoBody, "none", FALSE)
        EXCEPT !.export = [export EXCEPT !.card = card]]

\* click on the .download-btn of the card at position i of the log
exportClick ==
    \E i \in CardPositions(chatBox) :
        LET args == ExportArgs(chatBox, i)
        IN  \E lib \in ClickLibs :
                /\ lastOp' = Exported("exportClick", i,
                                       downloadTableAsPDF(args.tableData, args.meta, lib))
                /\ UNCHANGED <<chatBox, sessionId, categoryDisplay, userInput,
                               requests, sent, minted>>

NextWithExport == Next \/ exportClick

SpecWithExport == Init /\ [][NextWithExport]_vars

(***************************************************************************)
(* The send / response pipeline with markup in the texts: what the user    *)
(* types and what the service replies is drawn from MarkupTexts.           *)
(***************************************************************************)
sendMarkup ==
    \E value \in MarkupTexts, now \in ClockReadings : SendWith(value, now)

replyMarkup == JsonSettledWith(MarkupBodies)

MarkupNext == sendMarkup \/ FetchSettled \/ replyMarkup

MarkupSpec == Init /\ [][MarkupNext]_vars

(***************************************************************************)
(* window.downloadTableAsPDF called on its own, with arguments and a       *)
(* library behaviour drawn from the inputs.                                *)
(***************************************************************************)
callDownloadTableAsPDF ==
    \E tableData \in PdfTables, meta \in PdfMetas :
        \E fault \in PdfFaults(meta), endOffset \in TableEndOffsets :
            /\ lastOp' = Exported("downloadTableAsPDF", 0,
                                   downloadTableAsPDF(tableData, meta, Lib(fault, endOffset)))
            /\ UNCHANGED <<chatBox, sessionId, categoryDisplay, userInput,
                           requests, sent, minted>>

PdfSpec == Init /\ [][callDownloadTableAsPDF]_vars

(***************************************************************************)
(* Vocabulary of the properties.                                           *)
(***************************************************************************)
IsUser(e) == e.kind = "message" /\ e.sender = "user"

NotTyping(e) == ~IsTyping(e)

UserCount(box) == Len(SelectSeq(box, IsUser))

\* the permanent entries of a log: everything but transient messages
Permanent(box) == SelectSeq(box, NotTyping)

IsPrefix(a, b) == Len(a) <= Len(b) /\ SubSeq(b, 1, Len(a)) = a

\* the permanent entries a step appended
Appended(before, after) ==
    SubSeq(Permanent(after), Len(Permanent(before)) + 1, Len(Permanent(after)))

ApologyBubble == Bubble("bot", NoId, Apology)

GreetingBubble == Bubble("bot", NoId, Greeting)

\* the step started a call of sendChatMessage that got past line 44
Issued == lastOp'.name = "sendChatMessage" /\ lastOp'.req # NoRequest

\* the step resumed a call of sendChatMessage at one of its awaits
Resumed == lastOp'.name \in {"fetchSettled", "jsonSettled"}

\* the step ran a call of sendChatMessage to its end
Completed == Resumed /\ lastOp'.outcome # "pending"

\* the same, of the step that led to the current state
HasCompleted == lastOp.name \in {"fetchSettled", "jsonSettled"} /\ lastOp.outcome # "pending"

\* a table as the wire contract has it: a non-empty array of arrays
IsTablePayload(v) ==
    v.t = "array" /\ Len(v.rows) > 0 /\ \A i \in 1..Len(v.rows) : v.rows[i].isArray

IsBlank(text) == \A k \in 1..Len(text) : IsSpace(text[k])

\* a reply that is a string with something other than white space in it
IsNonBlankReply(v) == v.t = "string" /\ ~IsBlank(v.chars)

(***************************************************************************)
(* C1: a send with non-empty trimmed input appends exactly one user        *)
(* message (the steps that resume the call append none), and when the call *)
(* completes, on whatever path, the log holds no transient message.        *)
(***************************************************************************)
C1_OneUserMessageNoTransientAtCompletion ==
    [][/\ Issued => UserCount(chatBox') = UserCount(chatBox) + 1
       /\ Resumed => UserCount(chatBox') = UserCount(chatBox)
       /\ Completed => TypingCount(chatBox') = 0]_vars

\* a call completed while another call was still suspended
C1_Witness ==
    /\ HasCompleted
    /\ Len(requests) > 0
    /\ UserCount(chatBox) = 2
    /\ TypingCount(chatBox) = 0

(***************************************************************************)
(* C2: the log never holds more than one transient message.                *)
(***************************************************************************)
C2_AtMostOneTransient == TypingCount(chatBox) <= 1

\* two calls are suspended and the log holds one transient message
C2_Witness == Len(requests) = 2 /\ TypingCount(chatBox) = 1

(***************************************************************************)
(* C3: the handling of one response appends at most one permanent entry    *)
(* and keeps the earlier ones; a response with a table and a non-blank     *)
(* reply gets the table card only.                                         *)
(***************************************************************************)
C3_AtMostOneTerminalEntryTableFirst ==
    [][Completed =>
         /\ IsPrefix(Permanent(chatBox), Permanent(chatBox'))
         /\ Len(Appended(chatBox, chatBox')) <= 1
         /\ (IsTablePayload(lastOp'.body.table) /\ IsNonBlankReply(lastOp'.body.reply))
               => /\ Len(Appended(chatBox, chatBox')) = 1
                  /\ Appended(chatBox, chatBox')[1].kind = "table"
                  /\ lastOp'.outcome = "table"]_vars

\* a response with a table and a non-blank reply was handled
C3_Witness ==
    /\ lastOp.name = "jsonSettled"
    /\ IsTablePayload(lastOp.body.table)
    /\ IsNonBlankReply(lastOp.body.reply)
    /\ chatBox[Len(chatBox)].kind = "table"

(***************************************************************************)
(* C4: a fetch that rejects or resolves with a non-success status ends the *)
(* call at once: the transient message is gone, exactly the apology is     *)
(* appended, and the error does not leave sendChatMessage.                 *)
(***************************************************************************)
C4_FailedFetchGivesOneApology ==
    [][(lastOp'.name = "fetchSettled" /\ lastOp'.result \in {"reject", "notok"}) =>
         /\ TypingCount(chatBox') = 0
         /\ Permanent(chatBox') = Append(Permanent(chatBox), ApologyBubble)
         /\ lastOp'.outcome = "apology"
         /\ ~lastOp'.escaped
         /\ Len(requests') = Len(requests) - 1]_vars

\* a response with a non-success status was handled
C4_Witness ==
    /\ lastOp.name = "fetchSettled"
    /\ lastOp.result = "notok"
    /\ chatBox[Len(chatBox)] = ApologyBubble

(***************************************************************************)
(* C5, as claimed: a successful-status response whose body does not parse, *)
(* or matches neither the reply shape nor the table shape, is an empty     *)
(* turn: transient message removed, nothing appended, no error.            *)
(***************************************************************************)
MatchesReplyShape(body) == body.parse = "object" /\ body.reply.t = "string"

MatchesTableShape(body) == body.parse = "object" /\ body.table.t = "array"

Malformed(body) ==
    body.parse = "fail" \/ (~MatchesReplyShape(body) /\ ~MatchesTableShape(body))

NoTable(v) ==
    \/ v.t \in {"undefined", "number"}
    \/ v.t = "string" /\ v.chars = <<>>
    \/ v.t = "array" /\ v.rows = <<>>

\* the reply member is absent, empty or white space only
NoReply(v) == v.t = "undefined" \/ (v.t = "string" /\ IsBlank(v.chars))

C6_BlankSendChangesNothing ==
    [][(lastOp'.name = "sendChatMessage" /\ IsBlank(lastOp'.value)) =>
         /\ UNCHANGED <<chatBox, sessionId, categoryDisplay, requests, sent, minted>>
         /\ lastOp'.req = NoRequest]_vars

\* a white-space send while a call was suspended and its transient message shown
C6_Witness ==
    /\ lastOp.name = "sendChatMessage"
    /\ lastOp.value # <<>> /\ IsBlank(lastOp.value)
    /\ Len(requests) > 0
    /\ TypingCount(chatBox) = 1

(***************************************************************************)
(* C7: after startNewSession the log is the greeting alone, with no        *)
(* transient message; a second call in a row leaves the same log.          *)
(***************************************************************************)
C7_StartLeavesGreetingOnly ==
    [][lastOp'.name = "startNewSession" =>
         /\ chatBox' = <<GreetingBubble>>
         /\ TypingCount(chatBox') = 0
         /\ lastOp.name = "startNewSession" => chatBox' = chatBox]_vars

\* a start while a call was suspended, so with its messages in the log
C7_Witness ==
    /\ lastOp.name = "startNewSession"
    /\ Len(requests) > 0
    /\ chatBox = <<GreetingBubble>>

(***************************************************************************)
(* C8: only startNewSession changes the session id; a request carries the  *)
(* id that was current when it was issued, so the calls issued since the   *)
(* last start all carry the current id.                                    *)
(***************************************************************************)
C8_SessionIdChangesOnlyInStart ==
    [][/\ sessionId' # sessionId => lastOp'.name = "startNewSession"
       /\ Issued => (lastOp'.req.session_id = sessionId /\ sessionId' = sessionId)
       /\ \A i \in 1..Len(requests') :
            requests'[i].current => requests'[i].session_id = sessionId']_vars

\* two calls issued in a session that is not the first one
C8_Witness ==
    /\ Len(requests) = 2
    /\ requests[1].current /\ requests[2].current
    /\ requests[1].session_id = requests[2].session_id
    /\ Cardinality(minted) = 2

(***************************************************************************)
(* C9, as claimed: the id startNewSession mints differs from every id      *)
(* minted before, the replaced one included.                               *)
(***************************************************************************)
C9_Original_MintedIdIsFresh ==
    [][lastOp'.name = "startNewSession" =>
         \A m \in minted : m.id # sessionId']_vars

(***************************************************************************)
(* C9, amended: the id startNewSession mints is "session_" followed by the *)
(* millisecond clock reading of the call; it differs from an id minted     *)
(* earlier exactly when the clock reading differs from the reading of that *)
(* earlier call, so two starts in the same millisecond mint the same id.   *)
(***************************************************************************)
C9_MintedIdFollowsClock ==
    [][lastOp'.name = "startNewSession" =>
         /\ sessionId' = "session_" \o ToString(lastOp'.now)
         /\ \A m \in minted : (m.id # sessionId') <=> (m.at # lastOp'.now)
         /\ minted' = minted \cup {[id |-> sessionId', at |-> lastOp'.now]}]_vars

\* a start at a clock reading other than that of the page load
C9_Witness ==
    /\ lastOp.name = "startNewSession"
    /\ Cardinality(minted) = 2
    /\ \E m \in minted : m.id # sessionId

(***************************************************************************)
(* C10, as claimed: a rendered table card has as many header cells as row  *)
(* 0 of the payload, and every data row has that same number of cells.     *)
(***************************************************************************)
C10_Original_EveryRowHasHeaderLength ==
    [][(lastOp'.name = "jsonSettled" /\ lastOp'.outcome = "table") =>
         LET card == chatBox'[Len(chatBox')]
         IN  /\ Len(card.th) = Len(lastOp'.body.table.rows[1].cells)
             /\ \A r \in 1..Len(card.tr) : Len(card.tr[r]) = Len(card.th)]_vars

(***************************************************************************)
(* C10, amended: a rendered table card has the entries of row 0 of the     *)
(* payload as header cells and one data row per further payload row, each  *)
(* with exactly the entries of its payload row, rows and columns in source *)
(* order; the data rows have the header's number of cells when the payload *)
(* rows have the length of row 0.                                          *)
(***************************************************************************)
C10_CardMirrorsPayloadRows ==
    [][(lastOp'.name = "jsonSettled" /\ lastOp'.outcome = "table") =>
         LET card == chatBox'[Len(chatBox')]
             rows == lastOp'.body.table.rows
         IN  /\ card.kind = "table"
             /\ card.th = rows[1].cells
             /\ Len(card.tr) = Len(rows) - 1
             /\ \A r \in 1..Len(card.tr) : card.tr[r] = rows[r + 1].cells
             /\ (\A r \in 1..Len(rows) : Len(rows[r].cells) = Len(rows[1].cells))
                  => \A r \in 1..Len(card.tr) : Len(card.tr[r]) = Len(card.th)]_vars

\* a payload whose rows differ in length was rendered
C10_Witness ==
    /\ lastOp.name = "jsonSettled"
    /\ lastOp.outcome = "table"
    /\ \E r \in 1..Len(lastOp.body.table.rows) :
         Len(lastOp.body.table.rows[r].cells) # Len(lastOp.body.table.rows[1].cells)
    /\ chatBox[Len(chatBox)].kind = "table"
    /\ Len(chatBox[Len(chatBox)].tr) = 2

(***************************************************************************)
(* C11: a click on the button of a card, whenever it happens, calls        *)
(* downloadTableAsPDF with the table and the meta that card was rendered   *)
(* with, a null meta staying null, and with no other card's.               *)
(***************************************************************************)
C11_ExportPassesWhatTheCardWasRenderedWith ==
    [][lastOp'.name = "exportClick" =>
          LET i == lastOp'.export.card
          IN  /\ i \in CardPositions(chatBox)
              /\ lastOp'.export.called
              /\ lastOp'.export.args = chatBox[i].renderedWith
              /\ lastOp'.export.args.meta.isNull = chatBox[i].renderedWith.meta.isNull]_vars

\* the older of two cards rendered with different data was exported after
\* the newer one was rendered
C11_Witness ==
    /\ lastOp.name = "exportClick"
    /\ \E j \in CardPositions(chatBox) :
           /\ lastOp.export.card < j
           /\ chatBox[j].renderedWith.tableData # lastOp.export.args.tableData
           /\ chatBox[j].renderedWith.meta # lastOp.export.args.meta
    /\ lastOp.export.args.meta = MetaGoa

\* the call of downloadTableAsPDF the last step made
ExportRun == lastOp.export

\* the lines written above the table
HeaderLines(doc) == SelectSeq(doc.texts, LAMBDA t : t.line # "disclaimer")

DisclaimerLines(doc) == SelectSeq(doc.texts, LAMBDA t : t.line = "disclaimer")

(***************************************************************************)
(* C12: the export is all or nothing.  When a statement of the try block   *)
(* throws (making the document, writing a line, drawing the table, reading *)
(* its end position, writing the disclaimer), no file is saved, the error  *)
(* is logged once, one alert is shown and nothing is thrown to the caller; *)
(* a file is saved only after the document was made and the header, the    *)
(* table and the disclaimer were drawn, and then nothing is logged or      *)
(* alerted.                                                                *)
(***************************************************************************)
C12_ExportIsAllOrNothing ==
    ExportRun.called =>
        /\ ~ExportRun.escaped
        /\ ExportRun.lib.fault # "none" =>
               /\ ~ExportRun.doc.saved
               /\ ExportRun.errors = 1
               /\ ExportRun.alerts = 1
        /\ ExportRun.lib.fault = "none" => ExportRun.doc.saved
        /\ ExportRun.doc.saved =>
               /\ ExportRun.doc.made
               /\ Len(HeaderLines(ExportRun.doc)) >= 2
               /\ ExportRun.doc.table.drawn
               /\ Len(DisclaimerLines(ExportRun.doc)) = 1
               /\ ExportRun.errors = 0
               /\ ExportRun.alerts = 0

\* the disclaimer could not be written: the table is drawn, no file is saved
C12_Witness ==
    /\ ExportRun.called
    /\ ExportRun.lib.fault = "disclaimer"
    /\ ExportRun.doc.table.drawn
    /\ ~ExportRun.doc.saved
    /\ ExportRun.alerts = 1

(***************************************************************************)
(* C13: the name of the saved file depends on meta.state only: it is       *)
(* Wage_Details_<state>.pdf when there is a meta with a non-empty state,   *)
(* and Wage_Details_.pdf when meta is null, has no state or has an empty   *)
(* state, whatever the table and whatever was exported before.             *)
(***************************************************************************)
C13_FileNameFollowsState ==
    (ExportRun.called /\ ExportRun.lib.fault = "none") =>
        LET meta == ExportRun.args.meta
        IN  /\ ExportRun.doc.saved
            /\ IF ~meta.isNull /\ "state" \in meta.has /\ meta.state # ""
               THEN ExportRun.doc.fileName = "Wage_Details_" \o meta.state \o ".pdf"
               ELSE ExportRun.doc.fileName = "Wage_Details_.pdf"

\* a meta object without a state was exported under the fallback name
C13_Witness ==
    /\ ExportRun.called
    /\ ExportRun.args.meta = MetaNoState
    /\ ExportRun.doc.saved
    /\ ExportRun.doc.fileName = "Wage_Details_.pdf"

(***************************************************************************)
(* C19: in every export the header lines are written each strictly below   *)
(* the one before (at 12 and 22, then 30 and 36 with a meta, then 42 with  *)
(* a notification link), the table starts at the cursor left after the     *)
(* last header line (30, 42 or 52), strictly below that line, and the      *)
(* disclaimer is written at the end position of the table plus the margin, *)
(* strictly below that end position.                                       *)
(***************************************************************************)
C19_ExportPositionsAreOrdered ==
    ExportRun.called =>
        LET doc == ExportRun.doc
            meta == ExportRun.args.meta
            head == HeaderLines(doc)
            ys == [k \in 1..Len(head) |-> head[k].y]
        IN  /\ \A k \in 1..(Len(head) - 1) : head[k].y < head[k + 1].y
            /\ doc.table.drawn =>
                   /\ doc.table.startY > head[Len(head)].y
                   /\ meta.isNull => ys = <<12, 22>> /\ doc.table.startY = 30
                   /\ (~meta.isNull /\ ~UrlTruthy(meta)) =>
                          ys = <<12, 22, 30, 36>> /\ doc.table.startY = 42
                   /\ (~meta.isNull /\ UrlTruthy(meta)) =>
                          ys = <<12, 22, 30, 36, 42>> /\ doc.table.startY = 52
            /\ \A k \in 1..Len(DisclaimerLines(doc)) :
                   /\ DisclaimerLines(doc)[k].y = doc.table.finalY + DisclaimerMargin
                   /\ DisclaimerLines(doc)[k].y > doc.table.finalY

\* a complete export with a notification link, its table ending on a
\* following page higher up than it started
C19_Witness ==
    /\ ExportRun.called
    /\ ExportRun.doc.saved
    /\ UrlTruthy(ExportRun.args.meta)
    /\ Len(HeaderLines(ExportRun.doc)) = 5
    /\ ExportRun.doc.table.finalY < ExportRun.doc.table.startY

\* the letters of the tag name img, folded to lower case
Lower(c) ==
    CASE c = "I" -> "i"
      [] c = "M" -> "m"
      [] c = "G" -> "g"
      [] OTHER -> c

\* an image tag as the HTML parser of innerHTML reads one: "<", the tag name
\* img in any letter case, the end of the tag name, and a ">" that closes it
ImgTagAt(html, i) ==
    /\ i + 4 <= Len(html)
    /\ html[i] = "<"
    /\ Lower(html[i + 1]) = "i" /\ Lower(html[i + 2]) = "m" /\ Lower(html[i + 3]) = "g"
    /\ IsSpace(html[i + 4]) \/ html[i + 4] \in {"/", ">"}
    /\ ClosersFrom(html, i + 4) # {}

HasImgTag(html) == \E i \in 1..Len(html) : ImgTagAt(html, i)

(***************************************************************************)
(* C14: no message of the log displays an image: the content of every      *)
(* bubble is free of image tags, whatever the letter case of the tag name  *)
(* in the text it was rendered from.                                       *)
(***************************************************************************)
C14_NoBubbleShowsAnImage ==
    \A i \in 1..Len(chatBox) : chatBox[i].kind = "message" => ~HasImgTag(chatBox[i].html)

TypingBubble == Bubble("bot", TypingId, TypingText)

(***************************************************************************)
(* C15: when a send issues its request, the session id is the one that     *)
(* existed before the send (a session is started first only if there was   *)
(* none), the quick-action controls are hidden, the log is its earlier     *)
(* permanent entries followed by the user message of this send and then    *)
(* the transient message, and the request just issued carries the trimmed  *)
(* text and the current session id.                                        *)
(***************************************************************************)
C15_RequestIssuedAfterUserMessageAndTransient ==
    [][Issued =>
          LET req == lastOp'.req
              n == Len(chatBox')
          IN  /\ sessionId # NoSession => sessionId' = sessionId
              /\ sessionId = NoSession => chatBox'[1] = GreetingBubble /\ n = 3
              /\ categoryDisplay' = "none"
              /\ n >= 2
              /\ chatBox'[n] = TypingBubble
              /\ chatBox'[n - 1] = Bubble("user", NoId, Trim(lastOp'.value))
              /\ sessionId # NoSession => SubSeq(chatBox', 1, n - 2) = Permanent(chatBox)
              /\ Len(requests') = Len(requests) + 1
              /\ requests'[Len(requests')] = req
              /\ req.pc = "fetch"
              /\ req.message = Trim(lastOp'.value)
              /\ req.session_id = sessionId']_vars

\* a second send issued its request, with white space around the text typed,
\* while the first was suspended: the log ends with its user message and the
\* transient message
C15_Witness ==
    /\ lastOp.name = "sendChatMessage"
    /\ lastOp.req # NoRequest
    /\ lastOp.req.message # lastOp.value
    /\ Len(requests) = 2
    /\ chatBox[Len(chatBox)] = TypingBubble
    /\ IsUser(chatBox[Len(chatBox) - 1])
    /\ IsUser(chatBox[Len(chatBox) - 2])
    /\ categoryDisplay = "none"

(***************************************************************************)
(* C16: in every reachable state a transient message in the log is the     *)
(* last entry of the log: no permanent entry is appended after it.         *)
(***************************************************************************)
C16_TransientIsLast ==
    \A i \in 1..Len(chatBox) : IsTyping(chatBox[i]) => i = Len(chatBox)

\* the transient message of a second send stands last, after the reply to
\* the first send
C16_Witness ==
    /\ TypingCount(chatBox) = 1
    /\ Len(requests) = 1
    /\ sent = 2
    /\ \E i \in 1..Len(chatBox) :
           /\ chatBox[i].kind = "table"
           /\ i < Len(chatBox) - 1

(***************************************************************************)
(* C17: whenever a send has issued its request and has not completed or    *)
(* failed, the log holds a transient message.                              *)
(***************************************************************************)
C17_TransientWhileSendOutstanding ==
    Len(requests) > 0 => TypingCount(chatBox) >= 1

(***************************************************************************)
(* C20: every table card, reply or apology of the log comes after a user   *)
(* message of the same log: nothing is displayed in answer to a send of an *)
(* earlier session.                                                        *)
(***************************************************************************)
C20_EveryAnswerFollowsAUserMessage ==
    \A i \in 1..Len(chatBox) :
        (Permanent(<<chatBox[i]>>) # <<>> /\ ~IsUser(chatBox[i]) /\ chatBox[i] # GreetingBubble)
            => \E j \in 1..(i - 1) : IsUser(chatBox[j])

\* the oldest of the suspended calls ran to its end
OldestCompleted == Completed /\ requests' = Tail(requests)

(***************************************************************************)
(* C18: when every remote call returns or fails, no send stays outstanding *)
(* for ever: again and again no send is outstanding, or again and again    *)
(* the oldest outstanding send completes (a suspended call leaves the      *)
(* head of the suspended calls only by completing, and every call gets     *)
(* there once the older ones have completed).  A send issues               *)
(* one request; a resumed call issues none, and it either stays suspended  *)
(* at the next await, leaving the log alone, or ends on exactly one path   *)
(* (table, reply, nothing to show, apology) and is outstanding no more.    *)
(* While no send is outstanding the log holds no transient message.        *)
(***************************************************************************)
C18_EverySendCompletesOnce ==
    /\ []<>(requests = <<>>) \/ []<><<OldestCompleted>>_vars
    /\ [](requests = <<>> => TypingCount(chatBox) = 0)
    /\ [][/\ sent' # sent => Issued /\ sent' = sent + 1
          /\ Issued => sent' = sent + 1 /\ Len(requests') = Len(requests) + 1
          /\ Resumed =>
                IF Completed
                THEN /\ Len(requests') = Len(requests) - 1
                     /\ lastOp'.outcome \in {"table", "reply", "empty", "apology"}
                     /\ Len(Appended(chatBox, chatBox')) <= 1
                ELSE /\ Len(requests') = Len(requests)
                     /\ chatBox' = chatBox]_vars

\* both sends have completed, the second one before the first, and the log
\* holds no transient message
C18_Witness ==
    /\ sent = 2
    /\ requests = <<>>
    /\ HasCompleted
    /\ UserCount(chatBox) = 2
    /\ TypingCount(chatBox) = 0
    /\ lastOp.outcome = "apology"

====
